---- MODULE Spec2Model ----
(***************************************************************************)
(* TransitoCity: the traffic-light controller (TrafficLightSystem) and the *)
(* vehicle agent (VehicleController) driven by the game loop               *)
(* (updateGameLogic), over the road map the game installs.                 *)
(*                                                                         *)
(* Numbers.  The code computes with JavaScript numbers.  The model uses    *)
(* exact fixed-point integers: a time step is a whole number of ticks of   *)
(* 1/TicksPerSecond seconds, and a progress or a speed x is the integer    *)
(* x * Scale.  Scale is chosen so that every product and quotient the code *)
(* computes on the values the model reaches is a whole number of units;    *)
(* ExactArithmetic states this and is checked with the model.              *)
(***************************************************************************)
EXTENDS Integers, Sequences, FiniteSets, TLC

\* ------------------------------------------------------------------ units
TicksPerSecond == 1 + 1
Scale == 512 * 10

\* The time steps (in ticks) a frame can carry: the short ones, 0..MaxDt, and
\* one long one (a frame that took seconds), long enough to reach
\* VEHICLE_SPEED from rest in a single step.
MaxDt == 1
LongDt == 8
DtSet == (0..MaxDt) \cup {LongDt}

Max(a, b) == IF a >= b THEN a ELSE b
Min(a, b) == IF a <= b THEN a ELSE b

\* ------------------------------------------------------------ directions
NORTH == 0
EAST == 1
SOUTH == 2
WEST == 3
Directions == {NORTH, EAST, SOUTH, WEST}

\* ------------------------------------------------------------- road map
EMPTY == 0
STRAIGHT == 1
INTERSECTION == 2
HORIZONTAL == 0
VERTICAL == 1

\* The map the game installs (rows top to bottom, 0 based below).
cityMap ==
  << <<0, 6, 1, 7, 8, 1, 5>>,
     <<8, 7, 1, 6, 5, 1, 6>>,
     <<1, 1, 2, 1, 1, 2, 1>>,
     <<5, 8, 1, 7, 6, 1, 7>>,
     <<7, 6, 1, 5, 8, 1, 8>>,
     <<1, 1, 2, 1, 1, 2, 5>>,
     <<0, 5, 1, 8, 7, 1, 0>> >>

roadOnlyMap ==
  [y \in 1..Len(cityMap) |->
     [x \in 1..Len(cityMap[y]) |->
        IF cityMap[y][x] = 1 \/ cityMap[y][x] = 2 THEN cityMap[y][x] ELSE 0]]

MapHeight == Len(roadOnlyMap)
MapWidth == IF MapHeight > 0 THEN Len(roadOnlyMap[1]) ELSE 0
Rows == 0..(MapHeight - 1)
Cols == 0..(MapWidth - 1)

InGrid(m, x, y) == y \in DOMAIN m /\ x \in DOMAIN m[y]

\* value & 0b11 and value & 0b100 of setRoadMap
TypeBits(value) == value % 4
OrientationBit(value) == IF (value \div 4) % 2 = 1 THEN VERTICAL ELSE HORIZONTAL

InitialTiles(mapData) ==
  [y \in 0..(Len(mapData) - 1) |->
     [x \in 0..(Len(mapData[y + 1]) - 1) |->
        [type |-> TypeBits(mapData[y + 1][x + 1]),
         orientation |-> OrientationBit(mapData[y + 1][x + 1])]]]

hasIntersectionAt(m, x, y) == InGrid(m, x, y) /\ m[y][x].type = INTERSECTION
hasStraightRoadAt(m, x, y) == InGrid(m, x, y) /\ m[y][x].type = STRAIGHT

\* First pass of optimizeRoadConnections: it reads only the types around a
\* tile and the tile's own orientation, so it is a function of the tile.
FirstPassOrientation(m, x, y) ==
  LET tile == m[y][x]
      iN == hasIntersectionAt(m, x, y - 1)
      iS == hasIntersectionAt(m, x, y + 1)
      iE == hasIntersectionAt(m, x + 1, y)
      iW == hasIntersectionAt(m, x - 1, y)
      sN == hasStraightRoadAt(m, x, y - 1)
      sS == hasStraightRoadAt(m, x, y + 1)
      sE == hasStraightRoadAt(m, x + 1, y)
      sW == hasStraightRoadAt(m, x - 1, y)
  IN  IF tile.type # STRAIGHT THEN tile.orientation
      ELSE IF (iN /\ iS) \/ (iE /\ iW) THEN tile.orientation
      ELSE IF iN \/ iS THEN VERTICAL
      ELSE IF iE \/ iW THEN HORIZONTAL
      ELSE IF (sN /\ sS) \/ (sN /\ tile.orientation = VERTICAL)
               \/ (sS /\ tile.orientation = VERTICAL) THEN VERTICAL
      ELSE IF (sE /\ sW) \/ (sE /\ tile.orientation = HORIZONTAL)
               \/ (sW /\ tile.orientation = HORIZONTAL) THEN HORIZONTAL
      ELSE IF sN \/ sS THEN VERTICAL
      ELSE IF sE \/ sW THEN HORIZONTAL
      ELSE tile.orientation

FirstPass(m) ==
  [y \in DOMAIN m |->
     [x \in DOMAIN m[y] |->
        [m[y][x] EXCEPT !.orientation = FirstPassOrientation(m, x, y)]]]

getStraightRoadNeighbors(m, x, y) ==
  LET cand == << <<x, y - 1>>, <<x + 1, y>>, <<x, y + 1>>, <<x - 1, y>> >>
  IN  SelectSeq(cand, LAMBDA c : hasStraightRoadAt(m, c[1], c[2]))

\* Second pass, one tile: align with the straight neighbours as they are now.
SecondPassOrientation(m, x, y) ==
  LET tile == m[y][x]
      ns == getStraightRoadNeighbors(m, x, y)
      vert == Cardinality({i \in 1..Len(ns) : m[ns[i][2]][ns[i][1]].orientation = VERTICAL})
      horiz == Len(ns) - vert
  IN  IF tile.type # STRAIGHT THEN tile.orientation
      ELSE IF Len(ns) = 1 THEN m[ns[1][2]][ns[1][1]].orientation
      ELSE IF Len(ns) > 1 /\ vert > horiz THEN VERTICAL
      ELSE IF Len(ns) > 1 /\ horiz > vert THEN HORIZONTAL
      ELSE tile.orientation

\* The second pass updates the map in place, row by row: a tile sees the new
\* orientation of the tiles before it.  k counts the tiles already visited.
RECURSIVE SecondPass(_, _)
SecondPass(m, k) ==
  IF MapWidth = 0 \/ k >= MapHeight * MapWidth THEN m
  ELSE LET y == k \div MapWidth
           x == k % MapWidth
       IN  SecondPass([m EXCEPT ![y][x].orientation = SecondPassOrientation(m, x, y)],
                      k + 1)

optimizeRoadConnections(m) == SecondPass(FirstPass(m), 0)

setRoadMap(mapData) == optimizeRoadConnections(InitialTiles(mapData))

VARIABLES
  tiles            \* RoadSystem.tiles: the grid setRoadMap installed

NoTile == [exists |-> FALSE, type |-> EMPTY, orientation |-> HORIZONTAL]

\* getTileInfo: the tile, or null (exists = FALSE) outside the grid.
getTileInfo(x, y) ==
  IF InGrid(tiles, x, y)
    THEN [exists |-> TRUE, type |-> tiles[y][x].type,
          orientation |-> tiles[y][x].orientation]
    ELSE NoTile

\* --------------------------------------------------------- traffic lights
RED == 0
YELLOW == 1
GREEN == 2
GREEN_DURATION == 10 * TicksPerSecond
YELLOW_DURATION == 3 * TicksPerSecond

\* createIntersectionLights: north-south green, east-west red.
createIntersectionLights ==
  [northLight |-> GREEN, southLight |-> GREEN,
   eastLight |-> RED, westLight |-> RED,
   timeSinceLastChange |-> 0, currentAxis |-> "NS", currentState |-> GREEN]

\* setupTrafficLights: one entry per INTERSECTION tile of the map.
setupTrafficLights(m) ==
  [c \in {c \in Cols \X Rows : hasIntersectionAt(m, c[1], c[2])} |->
     createIntersectionLights]

\* UpdateIntersection with each duration compared by > instead of >=.
UpdateIntersectionLate(i, deltaTime) ==
  LET t == i.timeSinceLastChange + deltaTime
      j == [i EXCEPT !.timeSinceLastChange = t]
  IN  IF j.currentAxis = "NS"
        THEN IF j.currentState = GREEN /\ t > GREEN_DURATION
               THEN [j EXCEPT !.northLight = YELLOW, !.southLight = YELLOW,
                              !.currentState = YELLOW, !.timeSinceLastChange = 0]
             ELSE IF j.currentState = YELLOW /\ t > YELLOW_DURATION
               THEN [j EXCEPT !.northLight = RED, !.southLight = RED,
                              !.eastLight = GREEN, !.westLight = GREEN,
                              !.currentAxis = "EW", !.currentState = GREEN,
                              !.timeSinceLastChange = 0]
             ELSE j
        ELSE IF j.currentState = GREEN /\ t > GREEN_DURATION
               THEN [j EXCEPT !.eastLight = YELLOW, !.westLight = YELLOW,
                              !.currentState = YELLOW, !.timeSinceLastChange = 0]
             ELSE IF j.currentState = YELLOW /\ t > YELLOW_DURATION
               THEN [j EXCEPT !.eastLight = RED, !.westLight = RED,
                              !.northLight = GREEN, !.southLight = GREEN,
                              !.currentAxis = "NS", !.currentState = GREEN,
                              !.timeSinceLastChange = 0]
             ELSE j

\* UpdateIntersection going from GREEN straight to the other axis's GREEN.
UpdateIntersectionSkippingYellow(i, deltaTime) ==
  LET t == i.timeSinceLastChange + deltaTime
      j == [i EXCEPT !.timeSinceLastChange = t]
  IN  IF j.currentState = GREEN /\ t >= GREEN_DURATION
        THEN IF j.currentAxis = "NS"
               THEN [j EXCEPT !.northLight = RED, !.southLight = RED,
                              !.eastLight = GREEN, !.westLight = GREEN,
                              !.currentAxis = "EW", !.timeSinceLastChange = 0]
               ELSE [j EXCEPT !.eastLight = RED, !.westLight = RED,
                              !.northLight = GREEN, !.southLight = GREEN,
                              !.currentAxis = "NS", !.timeSinceLastChange = 0]
        ELSE j

\* UpdateIntersection keeping the overshoot in the timer at a transition.
UpdateIntersectionCarryingOvershoot(i, deltaTime) ==
  LET t == i.timeSinceLastChange + deltaTime
      j == [i EXCEPT !.timeSinceLastChange = t]
  IN  IF j.currentAxis = "NS"
        THEN IF j.currentState = GREEN /\ t >= GREEN_DURATION
               THEN [j EXCEPT !.northLight = YELLOW, !.southLight = YELLOW,
                              !.currentState = YELLOW,
                              !.timeSinceLastChange = t - GREEN_DURATION]
             ELSE IF j.currentState = YELLOW /\ t >= YELLOW_DURATION
               THEN [j EXCEPT !.northLight = RED, !.southLight = RED,
                              !.eastLight = GREEN, !.westLight = GREEN,
                              !.currentAxis = "EW", !.currentState = GREEN,
                              !.timeSinceLastChange = t - YELLOW_DURATION]
             ELSE j
        ELSE IF j.currentState = GREEN /\ t >= GREEN_DURATION
               THEN [j EXCEPT !.eastLight = YELLOW, !.westLight = YELLOW,
                              !.currentState = YELLOW,
                              !.timeSinceLastChange = t - GREEN_DURATION]
             ELSE IF j.currentState = YELLOW /\ t >= YELLOW_DURATION
               THEN [j EXCEPT !.eastLight = RED, !.westLight = RED,
                              !.northLight = GREEN, !.southLight = GREEN,
                              !.currentAxis = "NS", !.currentState = GREEN,
                              !.timeSinceLastChange = t - YELLOW_DURATION]
             ELSE j

\* UpdateIntersection restarting the east-west YELLOW instead of ending it.
UpdateIntersectionHoldingYellow(i, deltaTime) ==
  LET t == i.timeSinceLastChange + deltaTime
      j == [i EXCEPT !.timeSinceLastChange = t]
  IN  IF j.currentAxis = "NS"
        THEN IF j.currentState = GREEN /\ t >= GREEN_DURATION
               THEN [j EXCEPT !.northLight = YELLOW, !.southLight = YELLOW,
                              !.currentState = YELLOW, !.timeSinceLastChange = 0]
             ELSE IF j.currentState = YELLOW /\ t >= YELLOW_DURATION
               THEN [j EXCEPT !.northLight = RED, !.southLight = RED,
                              !.eastLight = GREEN, !.westLight = GREEN,
                              !.currentAxis = "EW", !.currentState = GREEN,
                              !.timeSinceLastChange = 0]
             ELSE j
        ELSE IF j.currentState = GREEN /\ t >= GREEN_DURATION
               THEN [j EXCEPT !.eastLight = YELLOW, !.westLight = YELLOW,
                              !.currentState = YELLOW, !.timeSinceLastChange = 0]
             ELSE IF j.currentState = YELLOW /\ t >= YELLOW_DURATION
               THEN [j EXCEPT !.timeSinceLastChange = 0]
             ELSE j

\* UpdateIntersection changing only the north light of the north-south pair
\* when the GREEN ends.
UpdateIntersectionNorthOnly(i, deltaTime) ==
  LET t == i.timeSinceLastChange + deltaTime
      j == [i EXCEPT !.timeSinceLastChange = t]
  IN  IF j.currentAxis = "NS"
        THEN IF j.currentState = GREEN /\ t >= GREEN_DURATION
               THEN [j EXCEPT !.northLight = YELLOW,
                              !.currentState = YELLOW, !.timeSinceLastChange = 0]
             ELSE IF j.currentState = YELLOW /\ t >= YELLOW_DURATION
               THEN [j EXCEPT !.northLight = RED, !.southLight = RED,
                              !.eastLight = GREEN, !.westLight = GREEN,
                              !.currentAxis = "EW", !.currentState = GREEN,
                              !.timeSinceLastChange = 0]
             ELSE j
        ELSE IF j.currentState = GREEN /\ t >= GREEN_DURATION
               THEN [j EXCEPT !.eastLight = YELLOW, !.westLight = YELLOW,
                              !.currentState = YELLOW, !.timeSinceLastChange = 0]
             ELSE IF j.currentState = YELLOW /\ t >= YELLOW_DURATION
               THEN [j EXCEPT !.eastLight = RED, !.westLight = RED,
                              !.northLight = GREEN, !.southLight = GREEN,
                              !.currentAxis = "NS", !.currentState = GREEN,
                              !.timeSinceLastChange = 0]
             ELSE j

\* One intersection's part of TrafficLightSystem.update.
UpdateIntersection(i, deltaTime) ==
  LET t == i.timeSinceLastChange + deltaTime
      j == [i EXCEPT !.timeSinceLastChange = t]
  IN  IF j.currentAxis = "NS"
        THEN IF j.currentState = GREEN /\ t >= GREEN_DURATION
               THEN [j EXCEPT !.northLight = YELLOW, !.southLight = YELLOW,
                              !.currentState = YELLOW, !.timeSinceLastChange = 0]
             ELSE IF j.currentState = YELLOW /\ t >= YELLOW_DURATION
               THEN [j EXCEPT !.northLight = RED, !.southLight = RED,
                              !.eastLight = GREEN, !.westLight = GREEN,
                              !.currentAxis = "EW", !.currentState = GREEN,
                              !.timeSinceLastChange = 0]
             ELSE j
        ELSE IF j.currentState = GREEN /\ t >= GREEN_DURATION
               THEN [j EXCEPT !.eastLight = YELLOW, !.westLight = YELLOW,
                              !.currentState = YELLOW, !.timeSinceLastChange = 0]
             ELSE IF j.currentState = YELLOW /\ t >= YELLOW_DURATION
               THEN [j EXCEPT !.eastLight = RED, !.westLight = RED,
                              !.northLight = GREEN, !.southLight = GREEN,
                              !.currentAxis = "NS", !.currentState = GREEN,
                              !.timeSinceLastChange = 0]
             ELSE j

TrafficLightSystemUpdate(ints, deltaTime) ==
  [c \in DOMAIN ints |-> UpdateIntersection(ints[c], deltaTime)]

\* canCrossIntersection letting only GREEN through.
canCrossOnGreenOnly(ints, tileX, tileY, direction) ==
  IF <<tileX, tileY>> \notin DOMAIN ints THEN TRUE
  ELSE LET i == ints[<<tileX, tileY>>]
       IN  IF direction = 0 \/ direction = 2
             THEN i.northLight = GREEN
             ELSE i.eastLight = GREEN

\* canCrossIntersection denying what it does not know.
canCrossFailClosed(ints, tileX, tileY, direction) ==
  IF <<tileX, tileY>> \notin DOMAIN ints THEN FALSE
  ELSE LET i == ints[<<tileX, tileY>>]
       IN  IF direction = 0 \/ direction = 2
             THEN i.northLight = GREEN \/ i.northLight = YELLOW
             ELSE i.eastLight = GREEN \/ i.eastLight = YELLOW

canCrossIntersection(ints, tileX, tileY, direction) ==
  IF <<tileX, tileY>> \notin DOMAIN ints THEN TRUE
  ELSE LET i == ints[<<tileX, tileY>>]
       IN  IF direction = 0 \/ direction = 2
             THEN i.northLight = GREEN \/ i.northLight = YELLOW
             ELSE i.eastLight = GREEN \/ i.eastLight = YELLOW

\* ---------------------------------------------------------------- vehicle
\* GameConfig, in model units (speeds and progress scaled by Scale).
VEHICLE_SPEED == (8 * Scale) \div 10
VEHICLE_ACCELERATION == (2 * Scale) \div 10
VEHICLE_DECELERATION == (5 * Scale) \div 10
VEHICLE_STOP_POINT == (9 * Scale) \div 10
\* checkIfStuck's default timeout, in ticks.
StuckTimeout == 10 * TicksPerSecond
\* lastProgress before its first assignment (undefined in the code).
Undefined == 0 - 1

\* rate * deltaTime for a scaled rate and a time step in ticks.
TimesDt(rate, deltaTime) == (rate * deltaTime) \div TicksPerSecond

getOffsetXForDirection(direction) ==
  IF direction = EAST THEN 1 ELSE IF direction = WEST THEN 0 - 1 ELSE 0

getOffsetYForDirection(direction) ==
  IF direction = NORTH THEN 0 - 1 ELSE IF direction = SOUTH THEN 1 ELSE 0

getOppositeDirection(direction) ==
  CASE direction = NORTH -> SOUTH
    [] direction = SOUTH -> NORTH
    [] direction = EAST -> WEST
    [] direction = WEST -> EAST

isDirectionCompatibleWithRoad(direction, roadTile) ==
  IF (direction = NORTH \/ direction = SOUTH) /\ roadTile.orientation = VERTICAL
    THEN TRUE
  ELSE IF (direction = EAST \/ direction = WEST) /\ roadTile.orientation = HORIZONTAL
    THEN TRUE
  ELSE FALSE

\* The field initialisers and the constructor.
NewVehicle(startX, startY, direction) ==
  [currentTileX |-> startX, currentTileY |-> startY,
   currentDirection |-> direction,
   tileProgress |-> 0,
   isStopped |-> FALSE, isDecelerating |-> FALSE, isAccelerating |-> FALSE,
   nextIntersectionTileX |-> 0 - 1, nextIntersectionTileY |-> 0 - 1,
   currentSpeed |-> 0,
   \* lastMoveTime: whether it is set, and Date.now() - lastMoveTime in ticks
   \* (kept up to StuckTimeout + 1: the code only asks whether it is > timeout)
   lastMoveSet |-> FALSE, sinceLastMove |-> 0,
   lastProgress |-> Undefined]

\* The directions decideDirectionAtIntersection may choose, in its order.
possibleDirections(v) ==
  LET opposite == getOppositeDirection(v.currentDirection)
      ok(dir) ==
        LET nextTile == getTileInfo(v.currentTileX + getOffsetXForDirection(dir),
                                    v.currentTileY + getOffsetYForDirection(dir))
        IN  /\ dir # opposite
            /\ nextTile.exists /\ nextTile.type # EMPTY
            /\ (nextTile.type = STRAIGHT => isDirectionCompatibleWithRoad(dir, nextTile))
  IN  SelectSeq(<<NORTH, EAST, SOUTH, WEST>>, ok)

\* decideDirectionAtIntersection choosing among all four directions.
decideDirectionAllowingUTurn(v) ==
  {[v EXCEPT !.currentDirection = dir] : dir \in Directions}

\* Math.floor(Math.random() * length) may be any index of the list: the
\* operators from here to update give the set of the results the random
\* choice allows.
decideDirectionAtIntersection(v) ==
  LET possible == possibleDirections(v)
  IN  IF Len(possible) = 0
        THEN {[v EXCEPT !.currentDirection = getOppositeDirection(v.currentDirection)]}
        ELSE {[v EXCEPT !.currentDirection = possible[randomIndex]] :
                randomIndex \in 1..Len(possible)}

\* adjustDirectionForStraightRoad turning round whenever the heading does
\* not fit the tile, without looking at the neighbours.
adjustDirectionByReversing(v, roadTile) ==
  IF isDirectionCompatibleWithRoad(v.currentDirection, roadTile) THEN v
  ELSE [v EXCEPT !.currentDirection = getOppositeDirection(v.currentDirection)]

adjustDirectionForStraightRoad(v, roadTile) ==
  LET northTile == getTileInfo(v.currentTileX, v.currentTileY - 1)
      southTile == getTileInfo(v.currentTileX, v.currentTileY + 1)
      eastTile == getTileInfo(v.currentTileX + 1, v.currentTileY)
      westTile == getTileInfo(v.currentTileX - 1, v.currentTileY)
      opposite == getOppositeDirection(v.currentDirection)
  IN  IF roadTile.orientation = VERTICAL
        THEN IF v.currentDirection = NORTH \/ v.currentDirection = SOUTH THEN v
             ELSE IF northTile.exists /\ northTile.type # EMPTY
               THEN [v EXCEPT !.currentDirection = NORTH]
             ELSE IF southTile.exists /\ southTile.type # EMPTY
               THEN [v EXCEPT !.currentDirection = SOUTH]
             ELSE [v EXCEPT !.currentDirection = opposite]
        ELSE IF v.currentDirection = EAST \/ v.currentDirection = WEST THEN v
             ELSE IF eastTile.exists /\ eastTile.type # EMPTY
               THEN [v EXCEPT !.currentDirection = EAST]
             ELSE IF westTile.exists /\ westTile.type # EMPTY
               THEN [v EXCEPT !.currentDirection = WEST]
             ELSE [v EXCEPT !.currentDirection = opposite]

\* StopAtTileEnd without the assignment of tileProgress.
StopAtTileEndUnclamped(v, nextTileX, nextTileY) ==
  [v EXCEPT !.isStopped = TRUE,
            !.isDecelerating = FALSE,
            !.nextIntersectionTileX = nextTileX,
            !.nextIntersectionTileY = nextTileY]

\* StopAtTileEnd clearing the acceleration as well: a full stop.
StopAtTileEndAtRest(v, nextTileX, nextTileY) ==
  [v EXCEPT !.tileProgress = VEHICLE_STOP_POINT,
            !.isStopped = TRUE,
            !.isDecelerating = FALSE,
            !.isAccelerating = FALSE,
            !.currentSpeed = 0,
            !.nextIntersectionTileX = nextTileX,
            !.nextIntersectionTileY = nextTileY]

\* The red-light branch of moveToNextTile: stop at the end of the current tile.
StopAtTileEnd(v, nextTileX, nextTileY) ==
  [v EXCEPT !.tileProgress = VEHICLE_STOP_POINT,
            !.isStopped = TRUE,
            !.isDecelerating = FALSE,
            !.nextIntersectionTileX = nextTileX,
            !.nextIntersectionTileY = nextTileY]

\* CommitMove carrying the overshoot beyond 1.0 onto the next tile.
CommitMoveKeepingOvershoot(v) ==
  LET nextTileX == v.currentTileX + getOffsetXForDirection(v.currentDirection)
      nextTileY == v.currentTileY + getOffsetYForDirection(v.currentDirection)
      nextTile == getTileInfo(nextTileX, nextTileY)
      moved == [v EXCEPT !.tileProgress = @ - Scale,
                         !.currentTileX = nextTileX, !.currentTileY = nextTileY]
  IN  IF nextTile.exists
        THEN IF nextTile.type = INTERSECTION
               THEN decideDirectionAtIntersection(moved)
             ELSE IF nextTile.type = STRAIGHT
               THEN {adjustDirectionForStraightRoad(moved, nextTile)}
             ELSE {moved}
      ELSE {[v EXCEPT !.tileProgress = @ - Scale,
                      !.currentDirection = getOppositeDirection(v.currentDirection)]}

\* moveToNextTile past its red-light branch: commit the move, or turn round
\* where there is no tile ahead.
CommitMove(v) ==
  LET nextTileX == v.currentTileX + getOffsetXForDirection(v.currentDirection)
      nextTileY == v.currentTileY + getOffsetYForDirection(v.currentDirection)
      nextTile == getTileInfo(nextTileX, nextTileY)
      moved == [v EXCEPT !.tileProgress = 0,
                         !.currentTileX = nextTileX, !.currentTileY = nextTileY]
  IN  IF nextTile.exists
        THEN IF nextTile.type = INTERSECTION
               THEN decideDirectionAtIntersection(moved)
             ELSE IF nextTile.type = STRAIGHT
               THEN {adjustDirectionForStraightRoad(moved, nextTile)}
             ELSE {moved}
      ELSE {[v EXCEPT !.tileProgress = 0,
                      !.currentDirection = getOppositeDirection(v.currentDirection)]}

\* moveToNextTile without its red-light branch.
moveIgnoringSignal(v, ints) == CommitMove(v)

\* Whether the tile ahead of v is an INTERSECTION whose signal denies v's heading.
DeniedAhead(v, ints) ==
  LET nextTileX == v.currentTileX + getOffsetXForDirection(v.currentDirection)
      nextTileY == v.currentTileY + getOffsetYForDirection(v.currentDirection)
      nextTile == getTileInfo(nextTileX, nextTileY)
  IN  /\ nextTile.exists /\ nextTile.type = INTERSECTION
      /\ ~canCrossIntersection(ints, nextTileX, nextTileY, v.currentDirection)

moveToNextTile(v, ints) ==
  IF DeniedAhead(v, ints)
    THEN {StopAtTileEnd(v, v.currentTileX + getOffsetXForDirection(v.currentDirection),
                        v.currentTileY + getOffsetYForDirection(v.currentDirection))}
    ELSE CommitMove(v)

\* The immediate stop of checkForUpcomingRedLight (tileProgress > 0.8).
SnapToStopPoint(v) ==
  [v EXCEPT !.tileProgress = VEHICLE_STOP_POINT,
            !.isStopped = TRUE,
            !.isDecelerating = FALSE,
            !.isAccelerating = FALSE,
            !.currentSpeed = 0]

checkForUpcomingRedLight(v, ints) ==
  LET currentTile == getTileInfo(v.currentTileX, v.currentTileY)
      nextTileX == v.currentTileX + getOffsetXForDirection(v.currentDirection)
      nextTileY == v.currentTileY + getOffsetYForDirection(v.currentDirection)
      denied == DeniedAhead(v, ints)
      braking == [v EXCEPT !.isDecelerating = TRUE,
                           !.isAccelerating = FALSE,
                           !.nextIntersectionTileX = nextTileX,
                           !.nextIntersectionTileY = nextTileY]
  IN  IF v.isDecelerating \/ v.isStopped \/ v.isAccelerating THEN v
      ELSE IF currentTile.exists /\ currentTile.type = INTERSECTION THEN v
      ELSE IF denied
        THEN IF braking.tileProgress * 10 > 8 * Scale
               THEN SnapToStopPoint(braking)
               ELSE braking
      ELSE v

resetVehicle(v, newX, newY, newDirection) ==
  LET placed == [v EXCEPT !.currentTileX = newX, !.currentTileY = newY,
                          !.currentDirection = newDirection,
                          !.tileProgress = 0,
                          !.isStopped = FALSE, !.isDecelerating = FALSE,
                          !.currentSpeed = Scale \div 10,
                          !.isAccelerating = TRUE,
                          !.nextIntersectionTileX = 0 - 1,
                          !.nextIntersectionTileY = 0 - 1]
      currentTile == getTileInfo(newX, newY)
      adjusted == IF currentTile.exists /\ currentTile.type = STRAIGHT
                    THEN adjustDirectionForStraightRoad(placed, currentTile)
                    ELSE placed
      nextTile == getTileInfo(newX + getOffsetXForDirection(adjusted.currentDirection),
                              newY + getOffsetYForDirection(adjusted.currentDirection))
      headed == IF ~nextTile.exists \/ nextTile.type = EMPTY
                  THEN [adjusted EXCEPT
                          !.currentDirection = getOppositeDirection(adjusted.currentDirection)]
                  ELSE adjusted
  IN  [headed EXCEPT !.lastMoveSet = TRUE, !.sinceLastMove = 0, !.lastProgress = 0]

\* The offsets checkIfStuck tries, in its loop order (dy outer, dx inner).
NearbyOffsets ==
  << <<0 - 1, 0 - 1>>, <<0, 0 - 1>>, <<1, 0 - 1>>,
     <<0 - 1, 0>>, <<1, 0>>,
     <<0 - 1, 1>>, <<0, 1>>, <<1, 1>> >>

NearbyStraight(v) ==
  SelectSeq(NearbyOffsets,
            LAMBDA o : LET t == getTileInfo(v.currentTileX + o[1], v.currentTileY + o[2])
                       IN  t.exists /\ t.type = STRAIGHT)

\* Whether checkIfStuck takes its forced-reset branch.
StuckOnIntersection(v) ==
  LET currentTile == getTileInfo(v.currentTileX, v.currentTileY)
  IN  /\ v.lastMoveSet
      /\ v.sinceLastMove > StuckTimeout
      /\ currentTile.exists /\ currentTile.type = INTERSECTION

\* The tail of checkIfStuck: note the time of the last movement.
NoteMovement(v) ==
  IF ~v.isStopped /\ v.tileProgress # v.lastProgress
    THEN [v EXCEPT !.sinceLastMove = 0, !.lastProgress = v.tileProgress]
    ELSE v

checkIfStuck(v) ==
  LET near == NearbyStraight(v)
  IN  IF ~v.lastMoveSet
        THEN [v EXCEPT !.lastMoveSet = TRUE, !.sinceLastMove = 0]
      ELSE IF StuckOnIntersection(v)
        THEN IF Len(near) > 0
               THEN resetVehicle(v, v.currentTileX + near[1][1],
                                 v.currentTileY + near[1][2], v.currentDirection)
               ELSE NoteMovement([v EXCEPT !.isStopped = FALSE,
                                           !.isDecelerating = FALSE,
                                           !.tileProgress = Scale \div 2])
      ELSE NoteMovement(v)

\* Step 2 of update: integrate the acceleration.
Accelerate(v, deltaTime) ==
  LET speed == v.currentSpeed + TimesDt(VEHICLE_ACCELERATION, deltaTime)
  IN  IF ~v.isAccelerating THEN v
      ELSE IF speed >= VEHICLE_SPEED
        THEN [v EXCEPT !.currentSpeed = VEHICLE_SPEED, !.isAccelerating = FALSE]
        ELSE [v EXCEPT !.currentSpeed = speed]

\* The speed reduction of one braking tick:
\* VEHICLE_DECELERATION * max(1, 3 - distanceToStop * 10) * deltaTime.
adjustedDeceleration(distanceToStop, deltaTime) ==
  LET desacelerationFactor == Max(Scale, 3 * Scale - distanceToStop * 10)
  IN  (VEHICLE_DECELERATION * desacelerationFactor * deltaTime)
        \div (Scale * TicksPerSecond)

\* A braking vehicle comes to rest.
ComeToRest(v, progress) ==
  [v EXCEPT !.isStopped = TRUE, !.isDecelerating = FALSE,
            !.currentSpeed = 0, !.tileProgress = progress]

\* Step 3 of update: the isDecelerating branch (it returns from update).
Decelerate(v, deltaTime) ==
  LET progress == v.tileProgress
      stopPoint == VEHICLE_STOP_POINT
      distanceToStop == stopPoint - progress
      speed == Max(0, v.currentSpeed - adjustedDeceleration(distanceToStop, deltaTime))
      advanced == progress + TimesDt(speed, deltaTime)
  IN  IF progress >= stopPoint THEN ComeToRest(v, stopPoint)
      ELSE IF speed * 100 < 2 * Scale
        THEN ComeToRest(v, IF distanceToStop * 100 < 5 * Scale
                             THEN stopPoint ELSE progress)
      ELSE IF advanced >= stopPoint THEN ComeToRest(v, stopPoint)
      ELSE [v EXCEPT !.currentSpeed = speed, !.tileProgress = advanced]

\* Steps 4 and 5 of update: the red-light check and the normal advance.
Advance(v, deltaTime, ints) ==
  LET checked == checkForUpcomingRedLight(v, ints)
  IN  [checked EXCEPT !.tileProgress = @ + TimesDt(checked.currentSpeed, deltaTime)]

\* Steps 4 to 6 of update: the advance, the tile transition at 1.0 and the
\* stuck check.
AdvanceNormally(v, deltaTime, ints) ==
  LET advanced == Advance(v, deltaTime, ints)
      moved == IF advanced.tileProgress >= Scale
                 THEN moveToNextTile(advanced, ints)
                 ELSE {advanced}
  IN  {checkIfStuck(m) : m \in moved}

\* HeldAtLight for an update whose stopped check always takes its go branch.
NeverHeld(v, ints) == FALSE

\* Step 1 of update: a stopped vehicle whose pending intersection denies it.
HeldAtLight(v, ints) ==
  /\ v.isStopped
  /\ ~canCrossIntersection(ints, v.nextIntersectionTileX,
                           v.nextIntersectionTileY, v.currentDirection)

\* Step 1 of update, signal permitting: leave STOPPED, accelerate from 0.
StartAccelerating(v) ==
  [v EXCEPT !.isStopped = FALSE, !.isDecelerating = FALSE,
            !.isAccelerating = TRUE, !.currentSpeed = 0]

\* Steps 1 and 2 of update for a vehicle that is not held.
Accelerated(v, deltaTime) ==
  Accelerate(IF v.isStopped THEN StartAccelerating(v) ELSE v, deltaTime)

\* update for a braking vehicle that looks at the signal again and lets go of
\* the brake once its intersection permits its heading.
updateReleasingBrake(v, deltaTime, ints) ==
  IF HeldAtLight(v, ints) THEN {[v EXCEPT !.currentSpeed = 0]}
  ELSE IF Accelerated(v, deltaTime).isDecelerating
    THEN IF canCrossIntersection(ints, v.nextIntersectionTileX,
                                 v.nextIntersectionTileY, v.currentDirection)
           THEN AdvanceNormally([Accelerated(v, deltaTime)
                                   EXCEPT !.isDecelerating = FALSE,
                                          !.isAccelerating = TRUE],
                                deltaTime, ints)
           ELSE {Decelerate(Accelerated(v, deltaTime), deltaTime)}
  ELSE AdvanceNormally(Accelerated(v, deltaTime), deltaTime, ints)

\* VehicleController.update (the vehicle is always given the light system).
update(v, deltaTime, ints) ==
  IF HeldAtLight(v, ints) THEN {[v EXCEPT !.currentSpeed = 0]}
  ELSE IF Accelerated(v, deltaTime).isDecelerating
    THEN {Decelerate(Accelerated(v, deltaTime), deltaTime)}
  ELSE AdvanceNormally(Accelerated(v, deltaTime), deltaTime, ints)

\* Date.now() moves on by the frame's time step between two updates.
ClockAdvance(v, deltaTime) ==
  IF v.lastMoveSet
    THEN [v EXCEPT !.sinceLastMove = Min(@ + deltaTime, StuckTimeout + 1)]
    ELSE v

\* The two cars the game spawns: (2,2) heading EAST and (2,5) heading WEST.
Spawns == { <<2, 2, EAST>>, <<2, 5, WEST>> }

\* Whether update(v, deltaTime) reaches the end of the tile: it does not return
\* early and its normal advance brings tileProgress to 1.0 or beyond.
ReachesTileEnd(v, deltaTime, ints) ==
  /\ ~HeldAtLight(v, ints)
  /\ ~Accelerated(v, deltaTime).isDecelerating
  /\ Advance(Accelerated(v, deltaTime), deltaTime, ints).tileProgress >= Scale

\* The states moveToNextTile leaves the vehicle in when update(v, deltaTime)
\* reaches the end of the tile, before the stuck check of that update.
TileTransition(v, deltaTime, ints) ==
  moveToNextTile(Advance(Accelerated(v, deltaTime), deltaTime, ints), ints)

\* The states update(v, deltaTime) hands to its closing checkIfStuck call: none
\* when update returns early (held at a light, or braking).
BeforeStuckCheck(v, deltaTime, ints) ==
  IF HeldAtLight(v, ints) \/ Accelerated(v, deltaTime).isDecelerating THEN {}
  ELSE IF Advance(Accelerated(v, deltaTime), deltaTime, ints).tileProgress >= Scale
    THEN TileTransition(v, deltaTime, ints)
  ELSE {Advance(Accelerated(v, deltaTime), deltaTime, ints)}

\* -------------------------------------------------------------- game loop
VARIABLES
  intersections,   \* TrafficLightSystem.intersections, by tile
  vehicle,         \* the VehicleController followed
  spawned,         \* whether the vehicle's model is loaded and its controller made
  frames,          \* SpecSpawn: the frames run since the controller was made
  elapsed,         \* SpecCycle: the sum of the time steps so far
  skipped,         \* SpecCycle: the marks a time step has jumped over
  other,           \* SpecPair: a second VehicleController; elsewhere it is left
                   \* as constructed and not followed
  page             \* SpecDriver: the page's visibility, its timers and clocks;
                   \* elsewhere it is left as loaded

vars == <<tiles, intersections, vehicle, spawned, frames, elapsed, skipped, other, page>>

\* The page once its script has run: visible, no background interval, and
\* animate() called once with currentTime 0, which asked for the next frame
\* and ran updateGameLogic(0).  now is the time since then and simulated the
\* sum of the time steps handed to updateGameLogic, both in ticks.
PageLoaded ==
  [isPageVisible |-> TRUE, gameInterval |-> FALSE, pendingFrames |-> 1,
   previousTime |-> 0, lastTimestamp |-> 0, now |-> 0, simulated |-> 0,
   changes |-> 0]

\* The game's set-up: roadSystem.setRoadMap(roadOnlyMap), then
\* new TrafficLightSystem(scene, roadSystem).
InitRoadsAndLights ==
  /\ tiles = setRoadMap(roadOnlyMap)
  /\ intersections = setupTrafficLights(tiles)

Init ==
  /\ InitRoadsAndLights
  /\ \E s \in Spawns : vehicle = NewVehicle(s[1], s[2], s[3])
  /\ spawned = TRUE
  /\ frames = 0
  /\ elapsed = 0
  /\ skipped = {}
  /\ other = NewVehicle(2, 5, WEST)
  /\ page = PageLoaded

\* LightsSeenByVehicles with the vehicles updated before the lights.
LightsBeforeUpdate(ints, deltaTime) == ints

\* The lights a vehicle update of this frame reads: updateGameLogic calls
\* trafficLightSystem.update(deltaTime) before vehicleController.update.
LightsSeenByVehicles(ints, deltaTime) == TrafficLightSystemUpdate(ints, deltaTime)

\* The states vehicleController.update(deltaTime) can leave the vehicle in, in
\* a frame of time step deltaTime taken from the current state.
Outcomes(deltaTime) ==
  update(ClockAdvance(vehicle, deltaTime), deltaTime,
         LightsSeenByVehicles(intersections, deltaTime))

\* One frame: updateGameLogic(deltaTime).
updateGameLogic(deltaTime) ==
  /\ intersections' = TrafficLightSystemUpdate(intersections, deltaTime)
  /\ IF spawned THEN vehicle' \in Outcomes(deltaTime) ELSE UNCHANGED vehicle

Frame ==
  /\ \E deltaTime \in DtSet : updateGameLogic(deltaTime)
  /\ UNCHANGED <<tiles, spawned, frames, elapsed, skipped, other, page>>

Next == Frame

Spec == Init /\ [][Next]_vars

\* Every quotient the model takes is exact on the values it reaches.
ExactArithmetic ==
  \A dt \in DtSet :
    /\ (vehicle.currentSpeed * dt) % TicksPerSecond = 0
    /\ (VEHICLE_ACCELERATION * dt) % TicksPerSecond = 0
    /\ (vehicle.isDecelerating /\ vehicle.tileProgress < VEHICLE_STOP_POINT) =>
         LET distanceToStop == VEHICLE_STOP_POINT - vehicle.tileProgress
             factor == Max(Scale, 3 * Scale - distanceToStop * 10)
             speed == Max(0, vehicle.currentSpeed
                               - adjustedDeceleration(distanceToStop, dt))
         IN  /\ (VEHICLE_DECELERATION * factor * dt) % (Scale * TicksPerSecond) = 0
             /\ (speed * dt) % TicksPerSecond = 0

\* ------------------------------------------------ SpecLights: lights alone
\* The frames before any vehicle's model is loaded: updateGameLogic drives
\* only TrafficLightSystem.update, here also by a step as long as a nominal
\* cycle.  The time steps are added up, as far as just past two cycles.
CycleLength == GREEN_DURATION + YELLOW_DURATION
Marks == {GREEN_DURATION, CycleLength, CycleLength + GREEN_DURATION}

InitLoading ==
  /\ InitRoadsAndLights
  /\ vehicle = NewVehicle(2, 2, EAST)
  /\ spawned = FALSE
  /\ frames = 0
  /\ elapsed = 0
  /\ skipped = {}
  /\ other = NewVehicle(2, 5, WEST)
  /\ page = PageLoaded

LightsUpdate ==
  /\ \E deltaTime \in DtSet \cup {CycleLength} :
       /\ updateGameLogic(deltaTime)
       /\ elapsed' = Min(elapsed + deltaTime, 2 * CycleLength + 1)
       /\ skipped' = skipped \cup {m \in Marks : elapsed < m /\ m < elapsed + deltaTime}
  /\ UNCHANGED <<tiles, spawned, frames, other, page>>

NextLights == LightsUpdate

SpecLights == InitLoading /\ [][NextLights]_vars

\* ------------------------------------- SpecSpawn: a controller made anywhere
\* The lights run while the model loads; then new VehicleController(x, y, d)
\* is called for a road tile and a heading, and a few frames follow.
MaxSpawnFrames == 3
RoadTiles == {c \in Cols \X Rows : tiles[c[2]][c[1]].type # EMPTY}

FrameBeforeSpawn ==
  /\ ~spawned
  /\ \E deltaTime \in DtSet : updateGameLogic(deltaTime)
  /\ UNCHANGED <<tiles, spawned, frames, elapsed, skipped, other, page>>

Construct ==
  /\ ~spawned
  /\ \E c \in RoadTiles, d \in Directions : vehicle' = NewVehicle(c[1], c[2], d)
  /\ spawned' = TRUE
  /\ UNCHANGED <<tiles, intersections, frames, elapsed, skipped, other, page>>

FrameAfterSpawn ==
  /\ spawned
  /\ frames < MaxSpawnFrames
  /\ \E deltaTime \in DtSet : updateGameLogic(deltaTime)
  /\ frames' = frames + 1
  /\ UNCHANGED <<tiles, spawned, elapsed, skipped, other, page>>

NextSpawn == FrameBeforeSpawn \/ Construct \/ FrameAfterSpawn

SpecSpawn == InitLoading /\ [][NextSpawn]_vars

\* ------------------------------------ SpecCity: either map, a car anywhere
\* The map of the game's first set-up, roadSystem.setRoadMap(cityMap): its
\* east-west street of row 5 ends before two EMPTY cells of the grid.
simpleCityMap ==
  << <<0, 0, 1, 0, 0, 0, 0>>,
     <<0, 0, 1, 0, 0, 0, 0>>,
     <<1, 1, 2, 1, 1, 1, 1>>,
     <<0, 0, 1, 0, 0, 0, 0>>,
     <<0, 0, 1, 0, 0, 0, 0>>,
     <<0, 0, 2, 1, 1, 0, 0>>,
     <<0, 0, 1, 0, 0, 0, 0>> >>

\* A degenerate map for setRoadMap: one street between two INTERSECTION tiles
\* that have no other neighbour.
deadEndMap ==
  << <<0, 0, 0, 0, 0, 0, 0>>,
     <<0, 0, 0, 0, 0, 0, 0>>,
     <<0, 2, 1, 1, 2, 0, 0>>,
     <<0, 0, 0, 0, 0, 0, 0>>,
     <<0, 0, 0, 0, 0, 0, 0>>,
     <<0, 0, 0, 0, 0, 0, 0>>,
     <<0, 0, 0, 0, 0, 0, 0>> >>

CityMaps == {roadOnlyMap, simpleCityMap, deadEndMap}

\* setRoadMap(one of the maps), new TrafficLightSystem, and
\* new VehicleController(x, y, d) for a road tile and a heading.
InitCity ==
  /\ tiles \in {setRoadMap(mapData) : mapData \in CityMaps}
  /\ intersections = setupTrafficLights(tiles)
  /\ \E c \in RoadTiles, d \in Directions : vehicle = NewVehicle(c[1], c[2], d)
  /\ spawned = TRUE
  /\ frames = 0
  /\ elapsed = 0
  /\ skipped = {}
  /\ other = NewVehicle(2, 5, WEST)
  /\ page = PageLoaded

SpecCity == InitCity /\ [][Next]_vars

\* SpecCity under an endless sequence of frames with a time step > 0:
\* requestAnimationFrame keeps calling animate, whose every frame hands the
\* clock's delta to trafficLightSystem.update.
LightsAdvance ==
  \E deltaTime \in (DtSet \cup {CycleLength}) \ {0} :
    intersections' = TrafficLightSystemUpdate(intersections, deltaTime)

SpecCityFair == SpecCity /\ WF_intersections(LightsAdvance)

\* SpecLights under the same endless sequence of frames.
SpecLightsFair == SpecLights /\ WF_intersections(LightsAdvance)

\* --------------------------------- SpecReset: resetVehicle called directly
\* resetVehicle is public: after a few frames it is called once with a road
\* tile and a heading, which ends the run (frames is set past MaxSpawnFrames).
ResetCall ==
  /\ spawned
  /\ frames <= MaxSpawnFrames
  /\ \E c \in RoadTiles, newDirection \in Directions :
       vehicle' = resetVehicle(vehicle, c[1], c[2], newDirection)
  /\ frames' = MaxSpawnFrames + 1
  /\ UNCHANGED <<tiles, intersections, spawned, elapsed, skipped, other, page>>

NextReset == FrameAfterSpawn \/ ResetCall

SpecReset == InitCity /\ [][NextReset]_vars

\* ------------------------------- SpecTown: a corner, adjacent intersections
\* A map for setRoadMap with a street corner made of STRAIGHT tiles (the
\* value 5 is a STRAIGHT tile with the VERTICAL bit set) and two INTERSECTION
\* tiles side by side.
cornerMap ==
  << <<0, 0, 0, 0, 0, 0, 0>>,
     <<2, 1, 1, 5, 0, 0, 0>>,
     <<0, 0, 0, 1, 0, 0, 0>>,
     <<0, 0, 0, 2, 2, 1, 1>>,
     <<0, 0, 0, 0, 0, 0, 0>>,
     <<0, 0, 0, 0, 0, 0, 0>>,
     <<0, 0, 0, 0, 0, 0, 0>> >>

\* setRoadMap(cornerMap), new TrafficLightSystem, and
\* new VehicleController(x, y, d) for a road tile and a heading.
InitTown ==
  /\ tiles = setRoadMap(cornerMap)
  /\ intersections = setupTrafficLights(tiles)
  /\ \E c \in RoadTiles, d \in Directions : vehicle = NewVehicle(c[1], c[2], d)
  /\ spawned = TRUE
  /\ frames = 0
  /\ elapsed = 0
  /\ skipped = {}
  /\ other = NewVehicle(2, 5, WEST)
  /\ page = PageLoaded

SpecTown == InitTown /\ [][Next]_vars

\* ------------------------------------------ SpecPair: two cars on one tile
\* The objects a VehicleController reaches besides itself are the light
\* system (through canCrossIntersection), the road grid (through getTileInfo)
\* and, through neither, the other controller.  shared is what an update call
\* of vehicle v finds of them; the operators give what it leaves.

\* SharedAfterUpdate for an update that resolves collisions: it stops the
\* other vehicle when that one is on the updated vehicle's tile.
SharedAfterYieldingUpdate(shared, v, deltaTime) ==
  IF /\ shared.others.currentTileX = v.currentTileX
     /\ shared.others.currentTileY = v.currentTileY
    THEN [shared EXCEPT !.others.isStopped = TRUE]
    ELSE shared

\* canCrossIntersection finds the entry and compares its lights' states,
\* getTileInfo returns the grid's tile, and update assigns only fields of its
\* own controller: the call leaves all of shared as it found it.
SharedAfterUpdate(shared, v, deltaTime) == shared

\* new VehicleController(1, 2, EAST) twice on the game's map: two cars on the
\* same tile, before the intersection (2,2).
InitPair ==
  /\ InitRoadsAndLights
  /\ vehicle = NewVehicle(1, 2, EAST)
  /\ other = NewVehicle(1, 2, EAST)
  /\ page = PageLoaded
  /\ spawned = TRUE
  /\ frames = 0
  /\ elapsed = 0
  /\ skipped = {}

\* updateGameLogic(deltaTime) with both controllers loaded: the lights, then
\* vehicleController1.update, then vehicleController2.update.  The run is
\* followed for MaxPairFrames frames.
MaxPairFrames == 10

PairFrame ==
  /\ frames < MaxPairFrames
  /\ frames' = frames + 1
  /\ \E deltaTime \in DtSet :
       LET lit == TrafficLightSystemUpdate(intersections, deltaTime)
           first == ClockAdvance(vehicle, deltaTime)
           found1 == [lights |-> lit, roads |-> tiles,
                      others |-> ClockAdvance(other, deltaTime)]
           left1 == SharedAfterUpdate(found1, first, deltaTime)
       IN  \E w1 \in update(first, deltaTime, found1.lights) :
             \E w2 \in update(left1.others, deltaTime, left1.lights) :
               LET found2 == [lights |-> left1.lights, roads |-> left1.roads,
                              others |-> w1]
                   left2 == SharedAfterUpdate(found2, left1.others, deltaTime)
               IN  /\ vehicle' = left2.others
                   /\ other' = w2
                   /\ intersections' = left2.lights
                   /\ tiles' = left2.roads
  /\ UNCHANGED <<spawned, elapsed, skipped, page>>

NextPair == PairFrame

SpecPair == InitPair /\ [][NextPair]_vars

\* ------------------------------ SpecApproach: a car near the end of a tile
\* The game's frames are about 16 ms long, each adding about 0.013 to the
\* tileProgress of a car at VEHICLE_SPEED, so that a car driving along a tile
\* passes through progress values the half-second steps of this model jump
\* over.  Here the lights run, then the car is taken up in such a state:
\* cruising SOUTH on the street tile (2,1) at VEHICLE_SPEED, at a progress of
\* 0.85 or 0.95, with the signal of the intersection ahead letting it through
\* (it would have braked otherwise); a few frames of the model follow.
ApproachProgress == {(85 * Scale) \div 100, (95 * Scale) \div 100}

Cruising(x, y, direction, progress) ==
  [NewVehicle(x, y, direction) EXCEPT !.tileProgress = progress,
                                      !.currentSpeed = VEHICLE_SPEED,
                                      !.lastMoveSet = TRUE,
                                      !.sinceLastMove = 0,
                                      !.lastProgress = progress]

DriveUp ==
  /\ ~spawned
  /\ \E progress \in ApproachProgress : vehicle' = Cruising(2, 1, SOUTH, progress)
  /\ canCrossIntersection(intersections, 2, 2, SOUTH)
  /\ spawned' = TRUE
  /\ UNCHANGED <<tiles, intersections, frames, elapsed, skipped, other, page>>

NextApproach == FrameBeforeSpawn \/ DriveUp \/ FrameAfterSpawn

SpecApproach == InitLoading /\ [][NextApproach]_vars

\* --------------------------------- SpecDriver: who calls updateGameLogic
\* The page while the vehicles' models are still loading: time passes, the
\* browser runs pending requestAnimationFrame callbacks and interval
\* callbacks in any order, and the page is hidden and shown again.  The clock
\* is followed for MaxClock ticks and the page through MaxChanges changes of
\* visibility.
MaxClock == 4
MaxChanges == 3

TimePasses ==
  /\ page.now < MaxClock
  /\ page' = [page EXCEPT !.now = @ + 1]
  /\ UNCHANGED <<tiles, intersections, vehicle, spawned, frames, elapsed,
                 skipped, other>>

\* animate(currentTime), run by the browser for one pending request: it
\* returns at once when the page is hidden; otherwise it asks for the next
\* frame and hands the time since previousTime to updateGameLogic.
AnimateCallback ==
  /\ page.pendingFrames > 0
  /\ IF ~page.isPageVisible
       THEN /\ page' = [page EXCEPT !.pendingFrames = @ - 1]
            /\ UNCHANGED <<intersections, vehicle>>
       ELSE LET deltaTime == page.now - page.previousTime
            IN  /\ page' = [page EXCEPT !.previousTime = page.now,
                                        !.simulated = @ + deltaTime]
                /\ updateGameLogic(deltaTime)
  /\ UNCHANGED <<tiles, spawned, frames, elapsed, skipped, other>>

\* The callback of the background setInterval.
IntervalCallback ==
  /\ page.gameInterval
  /\ LET deltaTime == page.now - page.lastTimestamp
     IN  /\ page' = [page EXCEPT !.lastTimestamp = page.now,
                                 !.simulated = @ + deltaTime]
         /\ updateGameLogic(deltaTime)
  /\ UNCHANGED <<tiles, spawned, frames, elapsed, skipped, other>>

\* The visibilitychange listener, run when the page is hidden or shown.
VisibilityChange ==
  /\ page.changes < MaxChanges
  /\ IF page.isPageVisible
       THEN page' = [page EXCEPT !.isPageVisible = FALSE,
                                 !.lastTimestamp = page.now,
                                 !.gameInterval = TRUE,
                                 !.changes = @ + 1]
       ELSE page' = [page EXCEPT !.isPageVisible = TRUE,
                                 !.gameInterval = FALSE,
                                 !.pendingFrames = @ + 1,
                                 !.changes = @ + 1]
  /\ UNCHANGED <<tiles, intersections, vehicle, spawned, frames, elapsed,
                 skipped, other>>

NextDriver == TimePasses \/ AnimateCallback \/ IntervalCallback \/ VisibilityChange

SpecDriver == InitLoading /\ [][NextDriver]_vars

\* ------------------------------------------------------------------ claims
Registered == DOMAIN intersections

\* C1: in every state reached by any sequence of update(dt) calls, each managed
\* intersection has exactly one active axis, canCrossIntersection is true for
\* both directions of that axis (GREEN or YELLOW) and false for both of the
\* other; right after construction it is true for NORTH and SOUTH and false
\* for EAST and WEST.
C1_PhaseInvariant ==
  /\ \A c \in Registered :
        LET ns == intersections[c].currentAxis = "NS"
            ew == intersections[c].currentAxis = "EW"
        IN  /\ ns # ew
            /\ intersections[c].currentState \in {GREEN, YELLOW}
            /\ canCrossIntersection(intersections, c[1], c[2], NORTH) = ns
            /\ canCrossIntersection(intersections, c[1], c[2], SOUTH) = ns
            /\ canCrossIntersection(intersections, c[1], c[2], EAST) = ew
            /\ canCrossIntersection(intersections, c[1], c[2], WEST) = ew
  /\ \A c \in DOMAIN setupTrafficLights(tiles) :
        /\ canCrossIntersection(setupTrafficLights(tiles), c[1], c[2], NORTH)
        /\ canCrossIntersection(setupTrafficLights(tiles), c[1], c[2], SOUTH)
        /\ ~canCrossIntersection(setupTrafficLights(tiles), c[1], c[2], EAST)
        /\ ~canCrossIntersection(setupTrafficLights(tiles), c[1], c[2], WEST)

\* C1's case: an intersection in the YELLOW phase of the east-west axis.
C1_Witness ==
  \E c \in Registered :
    /\ intersections[c].currentAxis = "EW"
    /\ intersections[c].currentState = YELLOW
    /\ canCrossIntersection(intersections, c[1], c[2], WEST)
    /\ ~canCrossIntersection(intersections, c[1], c[2], NORTH)

\* C2: fail-open.  In every reachable state canCrossIntersection is true, for
\* each of the four directions, at every coordinate that is not a registered
\* intersection: road tiles, empty cells, cells outside the grid and the
\* cleared value (-1, -1).
C2_FailOpen ==
  \A x \in (0 - 1)..MapWidth, y \in (0 - 1)..MapHeight, d \in Directions :
    <<x, y>> \notin Registered => canCrossIntersection(intersections, x, y, d)

\* C2's case: a registered intersection denies EAST while the cell next to it,
\* a cell outside the grid and (-1, -1) let EAST through.
C2_Witness ==
  \E c \in Registered :
    /\ ~canCrossIntersection(intersections, c[1], c[2], EAST)
    /\ <<c[1] + 1, c[2]>> \notin Registered
    /\ canCrossIntersection(intersections, c[1] + 1, c[2], EAST)
    /\ canCrossIntersection(intersections, MapWidth, c[2], EAST)
    /\ canCrossIntersection(intersections, 0 - 1, 0 - 1, EAST)

\* C3 as stated: once the time steps sum to exactly
\* GREEN_DURATION + YELLOW_DURATION the active axis is EW, and once they sum
\* to exactly twice that it is NS again.
C3_CycleLength ==
  \A c \in Registered :
    /\ elapsed = CycleLength => intersections[c].currentAxis = "EW"
    /\ elapsed = 2 * CycleLength => intersections[c].currentAxis = "NS"

\* C3 amended: the same, for the runs in which an update lands exactly on each
\* earlier switching time (GREEN_DURATION for the first half; GREEN_DURATION,
\* GREEN_DURATION + YELLOW_DURATION and 2 * GREEN_DURATION + YELLOW_DURATION
\* for the second).  A step that jumps over one delays the cycle, because a
\* transition resets the timer to 0 and drops the overshoot.
C3_CycleLengthOnExactSteps ==
  \A c \in Registered :
    /\ (elapsed = CycleLength /\ GREEN_DURATION \notin skipped)
         => intersections[c].currentAxis = "EW"
    /\ (elapsed = 2 * CycleLength /\ skipped = {})
         => intersections[c].currentAxis = "NS"

\* C3's case: two full cycles of steps that landed on every switching time.
C3_Witness ==
  /\ elapsed = 2 * CycleLength
  /\ skipped = {}
  /\ \A c \in Registered :
        /\ intersections[c].currentAxis = "NS"
        /\ intersections[c].currentState = GREEN
        /\ intersections[c].timeSinceLastChange = 0

\* A frame of time step deltaTime can have led from this state to the next.
FrameWas(deltaTime) ==
  /\ intersections' = TrafficLightSystemUpdate(intersections, deltaTime)
  /\ vehicle' \in update(ClockAdvance(vehicle, deltaTime), deltaTime, intersections')

SameCell(v, w) == v.currentTileX = w.currentTileX /\ v.currentTileY = w.currentTileY

AheadX(v) == v.currentTileX + getOffsetXForDirection(v.currentDirection)
AheadY(v) == v.currentTileY + getOffsetYForDirection(v.currentDirection)

C5_SpeedZeroIffStopped == (vehicle.currentSpeed = 0) <=> vehicle.isStopped

\* C6: after every update, for any time step, tileProgress lies in [0, 1];
\* whenever the normal advance brings it to 1.0 or beyond, the tile transition
\* runs in that same tick and leaves it at 0 or at STOP_POINT, never at a
\* value >= 1.  Stated of every update the next frame can make.
C6_ProgressInRange ==
  \A deltaTime \in DtSet :
    LET ints == LightsSeenByVehicles(intersections, deltaTime)
        atTileEnd == ReachesTileEnd(ClockAdvance(vehicle, deltaTime), deltaTime, ints)
    IN  \A w \in Outcomes(deltaTime) :
          /\ w.tileProgress >= 0
          /\ w.tileProgress < Scale
          /\ atTileEnd => w.tileProgress \in {0, VEHICLE_STOP_POINT}

\* C6's case: the vehicle has just crossed onto another tile, at progress 0,
\* with the speed that carried it over.
C6_Witness ==
  /\ vehicle.tileProgress = 0
  /\ vehicle.currentSpeed = VEHICLE_SPEED
  /\ ~vehicle.isStopped
  /\ vehicle.lastProgress = 0
  /\ getTileInfo(vehicle.currentTileX, vehicle.currentTileY).type = INTERSECTION

\* C7: stop-point clamp.  In every reachable state in which the vehicle is
\* STOPPED its tileProgress is at most STOP_POINT, for as long as it remains
\* STOPPED.
C7_StopPointClamp == vehicle.isStopped => vehicle.tileProgress <= VEHICLE_STOP_POINT

\* C7's case: a vehicle held at STOP_POINT, at rest, by a red light.
C7_Witness ==
  /\ vehicle.isStopped
  /\ vehicle.tileProgress = VEHICLE_STOP_POINT
  /\ vehicle.currentSpeed = 0
  /\ HeldAtLight(vehicle, intersections)

\* C8 as stated: a vehicle that is DECELERATING for an intersection comes to
\* rest exactly at the stop point: at the tick it becomes STOPPED its
\* tileProgress equals STOP_POINT and its currentSpeed equals 0.
C8_Step ==
  (vehicle.isDecelerating /\ ~vehicle.isStopped /\ vehicle'.isStopped)
    => /\ vehicle'.tileProgress = VEHICLE_STOP_POINT
       /\ vehicle'.currentSpeed = 0

C8_StopsAtStopPoint == [][C8_Step]_vars

\* C9 as stated: if the vehicle is STOPPED and its update finds that
\* canCrossIntersection(pending intersection, heading) is true, then in that
\* update it leaves STOPPED and becomes ACCELERATING, its speed is
\* min(VEHICLE_SPEED, VEHICLE_ACCELERATION * dt), and the normal advance of
\* the tick is applied (the progress grows by speed * dt, or the tile
\* transition runs when that reaches 1.0).
C9_LeavesStopped == ~vehicle'.isStopped

C9_BecomesAccelerating == vehicle'.isAccelerating

C9_SpeedFromZero(deltaTime) ==
  vehicle'.currentSpeed = Min(VEHICLE_SPEED, TimesDt(VEHICLE_ACCELERATION, deltaTime))

C9_AdvanceApplied(deltaTime) ==
  LET speed == Min(VEHICLE_SPEED, TimesDt(VEHICLE_ACCELERATION, deltaTime))
      advanced == vehicle.tileProgress + TimesDt(speed, deltaTime)
  IN  IF advanced >= Scale
        THEN vehicle'.tileProgress = 0
        ELSE SameCell(vehicle, vehicle') /\ vehicle'.tileProgress = advanced

C9_GoTick(deltaTime) ==
  /\ vehicle.isStopped
  /\ intersections' = TrafficLightSystemUpdate(intersections, deltaTime)
  /\ ~HeldAtLight(vehicle, intersections')
  /\ FrameWas(deltaTime)

C9_Step ==
  \A deltaTime \in DtSet :
    C9_GoTick(deltaTime)
      => /\ C9_LeavesStopped
         /\ C9_BecomesAccelerating
         /\ C9_SpeedFromZero(deltaTime)
         /\ C9_AdvanceApplied(deltaTime)

C9_StopAndGo == [][C9_Step]_vars

\* C10 as stated: green-light passthrough.  For a vehicle the constructor has
\* just placed on a tile whose tile ahead is an INTERSECTION with the active
\* axis equal to the axis of its heading, one update with dt > 0 strictly
\* increases tileProgress and leaves it neither DECELERATING nor STOPPED.
C10_JustConstructed == spawned /\ frames = 0

C10_GreenAhead ==
  /\ getTileInfo(AheadX(vehicle), AheadY(vehicle)).type = INTERSECTION
  /\ <<AheadX(vehicle), AheadY(vehicle)>> \in DOMAIN intersections'
  /\ intersections'[<<AheadX(vehicle), AheadY(vehicle)>>].currentAxis
       = IF vehicle.currentDirection \in {NORTH, SOUTH} THEN "NS" ELSE "EW"

C10_Step ==
  (/\ C10_JustConstructed
   /\ frames' = 1
   /\ \E deltaTime \in DtSet \ {0} : FrameWas(deltaTime)
   /\ C10_GreenAhead)
    => /\ vehicle'.tileProgress > vehicle.tileProgress
       /\ ~vehicle'.isDecelerating
       /\ ~vehicle'.isStopped

C10_GreenLightPassthrough == [][C10_Step]_vars

\* C11 as stated: progress monotonicity under cruise.  For a vehicle that is
\* cruising (not stopped, not decelerating, not accelerating) with no denied
\* intersection ahead, every update(dt) with dt > 0 strictly increases
\* tileProgress until it reaches 1.0, and in the tick it reaches 1.0 the
\* vehicle is on the next tile with tileProgress in [0, 1).  Stated of every
\* update the next frame can make.
C11_Cruising ==
  ~vehicle.isStopped /\ ~vehicle.isDecelerating /\ ~vehicle.isAccelerating

C11_CruiseProgress ==
  \A deltaTime \in DtSet \ {0} :
    (/\ C11_Cruising
     /\ ~DeniedAhead(vehicle, LightsSeenByVehicles(intersections, deltaTime)))
      => \A w \in Outcomes(deltaTime) :
           IF vehicle.tileProgress + TimesDt(vehicle.currentSpeed, deltaTime) >= Scale
             THEN /\ w.currentTileX = AheadX(vehicle)
                  /\ w.currentTileY = AheadY(vehicle)
                  /\ w.tileProgress >= 0
                  /\ w.tileProgress < Scale
             ELSE /\ SameCell(vehicle, w)
                  /\ w.tileProgress > vehicle.tileProgress

\* C12 as stated: dead-end reversal.  When the vehicle crosses a tile boundary
\* and the tile one cell ahead along its heading is absent (outside the grid)
\* or of type EMPTY, its heading becomes the opposite direction, its grid
\* coordinates are unchanged and tileProgress is reset to 0.  Stated of every
\* update the next frame can make.
C12_NoRoadAhead ==
  \/ ~getTileInfo(AheadX(vehicle), AheadY(vehicle)).exists
  \/ getTileInfo(AheadX(vehicle), AheadY(vehicle)).type = EMPTY

C12_DeadEndReversal ==
  \A deltaTime \in DtSet :
    (/\ C12_NoRoadAhead
     /\ ReachesTileEnd(ClockAdvance(vehicle, deltaTime), deltaTime,
                       LightsSeenByVehicles(intersections, deltaTime)))
      => \A w \in Outcomes(deltaTime) :
           /\ w.currentDirection = getOppositeDirection(vehicle.currentDirection)
           /\ SameCell(vehicle, w)
           /\ w.tileProgress = 0

\* C13: intersection turn exclusion.  When a tile transition commits onto an
\* INTERSECTION tile, the new heading is one of the directions d other than
\* the reverse of the entry heading whose neighbour tile exists, is not EMPTY
\* and, if STRAIGHT, has an orientation matching the axis of d; the reverse of
\* the entry heading is chosen if and only if that candidate set is empty.
\* Stated of every tile transition the next frame can make.
C13_Navigable(x, y, d) ==
  LET t == getTileInfo(x + getOffsetXForDirection(d), y + getOffsetYForDirection(d))
  IN  /\ t.exists
      /\ t.type # EMPTY
      /\ t.type = STRAIGHT => ((d \in {NORTH, SOUTH}) <=> (t.orientation = VERTICAL))

C13_Candidates(x, y, entry) ==
  {d \in Directions \ {getOppositeDirection(entry)} : C13_Navigable(x, y, d)}

C13_TurnExclusion ==
  \A deltaTime \in DtSet :
    LET ints == LightsSeenByVehicles(intersections, deltaTime)
        v == ClockAdvance(vehicle, deltaTime)
        entry == vehicle.currentDirection
        candidates == C13_Candidates(AheadX(vehicle), AheadY(vehicle), entry)
    IN  (/\ ReachesTileEnd(v, deltaTime, ints)
         /\ getTileInfo(AheadX(vehicle), AheadY(vehicle)).type = INTERSECTION
         /\ ~DeniedAhead(vehicle, ints))
          => \A w \in TileTransition(v, deltaTime, ints) :
               /\ w.currentTileX = AheadX(vehicle)
               /\ w.currentTileY = AheadY(vehicle)
               /\ w.currentDirection \in candidates \cup {getOppositeDirection(entry)}
               /\ (w.currentDirection = getOppositeDirection(entry))
                    <=> (candidates = {})

\* C13's case: the vehicle has just driven onto an INTERSECTION tile that
\* offered no way on but the one it came by, and was turned round.
C13_Witness ==
  /\ getTileInfo(vehicle.currentTileX, vehicle.currentTileY).type = INTERSECTION
  /\ vehicle.tileProgress = 0
  /\ vehicle.currentSpeed > 0
  /\ ~vehicle.isAccelerating
  /\ C13_Candidates(vehicle.currentTileX, vehicle.currentTileY,
                    getOppositeDirection(vehicle.currentDirection)) = {}
  /\ C13_Navigable(vehicle.currentTileX, vehicle.currentTileY, vehicle.currentDirection)

\* C14: update ordering.  In every tick of the game loop
\* TrafficLightSystem.update(dt) completes before VehicleController.update(dt)
\* of that tick and both receive the same dt, so every canCrossIntersection
\* answer a vehicle reads in a tick reflects the phase after that tick's
\* transition, never the phase before it: a stopped vehicle stays stopped
\* exactly when the new phase denies it, a vehicle starts braking only for an
\* intersection the new phase denies, and it enters an intersection only when
\* the new phase lets it.  Stated of every update the next frame can make.
C14_UpdateOrdering ==
  \A deltaTime \in DtSet :
    LET after == TrafficLightSystemUpdate(intersections, deltaTime)
    IN  \A w \in Outcomes(deltaTime) :
          /\ vehicle.isStopped
               => (w.isStopped <=>
                     ~canCrossIntersection(after, vehicle.nextIntersectionTileX,
                                           vehicle.nextIntersectionTileY,
                                           vehicle.currentDirection))
          /\ (~vehicle.isStopped /\ ~vehicle.isDecelerating
                /\ (w.isDecelerating \/ w.isStopped))
               => DeniedAhead(vehicle, after)
          /\ (/\ ~SameCell(vehicle, w)
              /\ w.currentTileX = AheadX(vehicle) /\ w.currentTileY = AheadY(vehicle)
              /\ getTileInfo(w.currentTileX, w.currentTileY).type = INTERSECTION)
               => ~DeniedAhead(vehicle, after)

\* C14's case: the signal ahead has turned GREEN for the vehicle's axis in
\* this very tick (its timer is 0) and the vehicle, which was waiting at the
\* stop point, has made the first half-second of its start in the same tick.
C14_Witness ==
  /\ <<AheadX(vehicle), AheadY(vehicle)>> \in DOMAIN intersections
  /\ intersections[<<AheadX(vehicle), AheadY(vehicle)>>].timeSinceLastChange = 0
  /\ intersections[<<AheadX(vehicle), AheadY(vehicle)>>].currentState = GREEN
  /\ canCrossIntersection(intersections, AheadX(vehicle), AheadY(vehicle),
                          vehicle.currentDirection)
  /\ vehicle.nextIntersectionTileX = AheadX(vehicle)
  /\ vehicle.nextIntersectionTileY = AheadY(vehicle)
  /\ vehicle.isAccelerating
  /\ vehicle.currentSpeed = TimesDt(VEHICLE_ACCELERATION, 1)
  /\ vehicle.tileProgress
       = VEHICLE_STOP_POINT + TimesDt(TimesDt(VEHICLE_ACCELERATION, 1), 1)

\* C15 as stated: forceReset heading validity.  After resetVehicle(x, y, h) on
\* a road tile (x, y) that has at least one navigable neighbour (in the grid
\* and not EMPTY), for every provided heading h the resulting heading points at
\* a navigable neighbour, and the vehicle is at tileProgress 0, not stopped,
\* not decelerating, accelerating, with its pending intersection cleared.
C15_OpenTowards(x, y, d) ==
  LET t == getTileInfo(x + getOffsetXForDirection(d), y + getOffsetYForDirection(d))
  IN  t.exists /\ t.type # EMPTY

C15_JustReset == frames = MaxSpawnFrames + 1

C15_ResetHeadingValid ==
  (/\ C15_JustReset
   /\ \E d \in Directions :
        C15_OpenTowards(vehicle.currentTileX, vehicle.currentTileY, d))
    => /\ C15_OpenTowards(vehicle.currentTileX, vehicle.currentTileY,
                          vehicle.currentDirection)
       /\ vehicle.tileProgress = 0
       /\ ~vehicle.isStopped
       /\ ~vehicle.isDecelerating
       /\ vehicle.isAccelerating
       /\ vehicle.nextIntersectionTileX = 0 - 1
       /\ vehicle.nextIntersectionTileY = 0 - 1

\* C16 as stated: the stuck-vehicle reset never fires in normal flow.  For a
\* vehicle created by the constructor on a road tile of a well-formed map and
\* driven only by update ticks, the forced-reset branch of checkIfStuck is
\* never taken in any run.  Stated of every update the next frame can make.
C16_NoForcedReset ==
  \A deltaTime \in DtSet :
    \A m \in BeforeStuckCheck(ClockAdvance(vehicle, deltaTime), deltaTime,
                              LightsSeenByVehicles(intersections, deltaTime)) :
      ~StuckOnIntersection(m)

\* C17 as stated: no permanent freeze.  For any map and any vehicle
\* constructed on a road tile, under an infinite sequence of ticks with dt > 0
\* the vehicle's position (grid cell or tileProgress) changes infinitely
\* often.
C17_PositionChanges ==
  \/ vehicle'.currentTileX # vehicle.currentTileX
  \/ vehicle'.currentTileY # vehicle.currentTileY
  \/ vehicle'.tileProgress # vehicle.tileProgress

C17_NoPermanentFreeze == []<><<C17_PositionChanges>>_vars

\* The phase of an intersection, the phase that follows it in the cycle and
\* the duration of its state.
PhaseOf(i) == <<i.currentAxis, i.currentState>>

NextPhaseOf(i) ==
  IF i.currentState = GREEN THEN <<i.currentAxis, YELLOW>>
  ELSE <<IF i.currentAxis = "NS" THEN "EW" ELSE "NS", GREEN>>

DurationOf(i) == IF i.currentState = GREEN THEN GREEN_DURATION ELSE YELLOW_DURATION

LightSteps == DtSet \cup {CycleLength}

\* C18: phase order.  Over any run the (activeAxis, phase) of each
\* intersection changes only along the cycle GREEN(NS) -> YELLOW(NS) ->
\* GREEN(EW) -> YELLOW(EW) -> GREEN(NS); the active axis changes only out of a
\* YELLOW phase, and a transition is taken only when the timer has reached the
\* duration of the current phase (GREEN 10 s, YELLOW 3 s).
C18_Step ==
  \A c \in Registered :
    PhaseOf(intersections'[c]) # PhaseOf(intersections[c])
      => /\ PhaseOf(intersections'[c]) = NextPhaseOf(intersections[c])
         /\ intersections'[c].currentAxis # intersections[c].currentAxis
              => intersections[c].currentState = YELLOW
         /\ \E deltaTime \in LightSteps :
              /\ intersections' = TrafficLightSystemUpdate(intersections, deltaTime)
              /\ intersections[c].timeSinceLastChange + deltaTime
                   >= DurationOf(intersections[c])

C19_Step ==
  \A deltaTime \in LightSteps :
    intersections' = TrafficLightSystemUpdate(intersections, deltaTime)
      => \A c \in Registered :
           /\ IF intersections[c].timeSinceLastChange + deltaTime
                   >= DurationOf(intersections[c])
                THEN /\ PhaseOf(intersections'[c]) = NextPhaseOf(intersections[c])
                     /\ intersections'[c].timeSinceLastChange = 0
                ELSE /\ PhaseOf(intersections'[c]) = PhaseOf(intersections[c])
                     /\ intersections'[c].timeSinceLastChange
                          = intersections[c].timeSinceLastChange + deltaTime
           /\ (/\ deltaTime >= GREEN_DURATION + YELLOW_DURATION
               /\ PhaseOf(intersections[c]) = <<"NS", GREEN>>
               /\ intersections[c].timeSinceLastChange = 0)
                => /\ PhaseOf(intersections'[c]) = <<"NS", YELLOW>>
                   /\ intersections'[c].timeSinceLastChange = 0

C19_OneTransitionPerUpdate == [][C19_Step]_vars

\* C19's case: the time steps sum to GREEN_DURATION + YELLOW_DURATION, the last
\* of them jumped over the end of the first GREEN, and the lights are in
\* YELLOW(NS) with the timer at 0.
C19_Witness ==
  /\ elapsed = CycleLength
  /\ GREEN_DURATION \in skipped
  /\ \A c \in Registered :
        /\ PhaseOf(intersections[c]) = <<"NS", YELLOW>>
        /\ intersections[c].timeSinceLastChange = 0

\* The INTERSECTION tiles of the game's map.
GameIntersections ==
  {c \in Cols \X Rows : hasIntersectionAt(InitialTiles(roadOnlyMap), c[1], c[2])}

\* C20: the signal cycle has no terminal state.  Under an infinite sequence of
\* update(dt) calls with dt > 0 every intersection keeps taking transitions,
\* each axis is active infinitely often and no phase lasts forever: each of
\* the four phases recurs for ever.
C20_NoTerminalState ==
  \A c \in GameIntersections :
    /\ []<>(PhaseOf(intersections[c]) = <<"NS", GREEN>>)
    /\ []<>(PhaseOf(intersections[c]) = <<"NS", YELLOW>>)
    /\ []<>(PhaseOf(intersections[c]) = <<"EW", GREEN>>)
    /\ []<>(PhaseOf(intersections[c]) = <<"EW", YELLOW>>)

\* C20's case: more than two nominal cycles of time steps have gone by and the
\* lights are again in their first phase, GREEN(NS).
C20_Witness ==
  /\ elapsed > 2 * CycleLength
  /\ GameIntersections = Registered
  /\ \A c \in Registered : PhaseOf(intersections[c]) = <<"NS", GREEN>>

\* C21: if the vehicle is STOPPED and its update finds
\* canCrossIntersection(pendingIntersection, heading) false, then after that
\* update its grid cell, heading and tileProgress are unchanged, its
\* currentSpeed is 0 and it is still STOPPED.  Stated of every update the next
\* frame can make.
C21_StillDenied ==
  \A deltaTime \in DtSet :
    (/\ vehicle.isStopped
     /\ ~canCrossIntersection(LightsSeenByVehicles(intersections, deltaTime),
                              vehicle.nextIntersectionTileX,
                              vehicle.nextIntersectionTileY,
                              vehicle.currentDirection))
      => \A w \in Outcomes(deltaTime) :
           /\ SameCell(vehicle, w)
           /\ w.currentDirection = vehicle.currentDirection
           /\ w.tileProgress = vehicle.tileProgress
           /\ w.currentSpeed = 0
           /\ w.isStopped

\* C21's case: a vehicle that has been kept STOPPED by denied updates for more
\* than ten seconds (no movement was noted meanwhile), at rest, still denied.
C21_Witness ==
  /\ vehicle.isStopped
  /\ vehicle.currentSpeed = 0
  /\ vehicle.sinceLastMove > StuckTimeout
  /\ ~canCrossIntersection(intersections, vehicle.nextIntersectionTileX,
                           vehicle.nextIntersectionTileY, vehicle.currentDirection)

\* C22 as stated: while the vehicle's current tile is an INTERSECTION, no
\* update call puts it into DECELERATING or STOPPED, whatever the signal state
\* of the tile ahead.  Stated of every update the next frame can make.
C22_OnIntersection ==
  getTileInfo(vehicle.currentTileX, vehicle.currentTileY).type = INTERSECTION

C22_ClearsIntersection ==
  \A deltaTime \in DtSet :
    (C22_OnIntersection /\ ~vehicle.isStopped /\ ~vehicle.isDecelerating)
      => \A w \in Outcomes(deltaTime) : ~w.isDecelerating /\ ~w.isStopped

\* C23: when a tile transition commits onto a STRAIGHT tile: if the axis of
\* the heading matches the orientation of the tile the heading is unchanged;
\* otherwise the new heading is a direction on the tile's axis whose neighbour
\* in that direction is navigable (in the grid and not EMPTY) whenever such a
\* neighbour exists, and it is the reverse of the old heading only if neither
\* neighbour on the tile's axis is navigable.  Stated of every tile transition
\* the next frame can make.
C23_AxisOf(roadTile) ==
  IF roadTile.orientation = VERTICAL THEN {NORTH, SOUTH} ELSE {EAST, WEST}

C23_StraightHeading ==
  \A deltaTime \in DtSet :
    LET ints == LightsSeenByVehicles(intersections, deltaTime)
        v == ClockAdvance(vehicle, deltaTime)
        entry == vehicle.currentDirection
        ahead == getTileInfo(AheadX(vehicle), AheadY(vehicle))
        open == {d \in C23_AxisOf(ahead) :
                   C15_OpenTowards(AheadX(vehicle), AheadY(vehicle), d)}
    IN  (/\ ReachesTileEnd(v, deltaTime, ints)
         /\ ahead.exists
         /\ ahead.type = STRAIGHT)
          => \A w \in TileTransition(v, deltaTime, ints) :
               /\ w.currentTileX = AheadX(vehicle)
               /\ w.currentTileY = AheadY(vehicle)
               /\ IF entry \in C23_AxisOf(ahead)
                    THEN w.currentDirection = entry
                    ELSE /\ w.currentDirection \in C23_AxisOf(ahead)
                              \cup {getOppositeDirection(entry)}
                         /\ open # {} => w.currentDirection \in open
                         /\ w.currentDirection = getOppositeDirection(entry)
                              => open = {}

\* C23's case: the vehicle is at a street corner, at full speed on a tile
\* whose tile ahead is a STRAIGHT tile lying across its heading, and a frame
\* takes it onto that tile and turns it towards the tile's one open end.
C23_Witness ==
  \E deltaTime \in DtSet :
    LET ints == LightsSeenByVehicles(intersections, deltaTime)
        v == ClockAdvance(vehicle, deltaTime)
        ahead == getTileInfo(AheadX(vehicle), AheadY(vehicle))
    IN  /\ vehicle.currentSpeed = VEHICLE_SPEED
        /\ ReachesTileEnd(v, deltaTime, ints)
        /\ ahead.exists
        /\ ahead.type = STRAIGHT
        /\ vehicle.currentDirection \notin C23_AxisOf(ahead)
        /\ \E w \in TileTransition(v, deltaTime, ints) :
             /\ w.currentTileX = AheadX(vehicle)
             /\ w.currentTileY = AheadY(vehicle)
             /\ w.currentDirection \in C23_AxisOf(ahead)
             /\ C15_OpenTowards(w.currentTileX, w.currentTileY, w.currentDirection)
             /\ ~C15_OpenTowards(w.currentTileX, w.currentTileY,
                                 getOppositeDirection(w.currentDirection))

\* C24: a VehicleController.update call, including the canCrossIntersection
\* and getTileInfo queries it makes, leaves unchanged every intersection's
\* axis, phase and timer, every road tile, and every other vehicle's state;
\* two vehicles may occupy the same tile and neither affects the other's next
\* state.  Over a frame with two vehicles: the lights are as
\* TrafficLightSystem.update(dt) alone leaves them, the road grid is as it
\* was, and each vehicle is in a state its own update(dt) gives from its own
\* state before the frame, whatever the other vehicle is or does.
C24_Step ==
  \E deltaTime \in DtSet :
    LET lit == TrafficLightSystemUpdate(intersections, deltaTime)
    IN  /\ intersections' = lit
        /\ tiles' = tiles
        /\ vehicle' \in update(ClockAdvance(vehicle, deltaTime), deltaTime, lit)
        /\ other' \in update(ClockAdvance(other, deltaTime), deltaTime, lit)

C25_StoppedWhileAccelerating ==
  \A deltaTime \in DtSet :
    LET ints == LightsSeenByVehicles(intersections, deltaTime)
    IN  (/\ vehicle.isAccelerating
         /\ ~vehicle.isStopped
         /\ vehicle.currentSpeed + TimesDt(VEHICLE_ACCELERATION, deltaTime)
              < VEHICLE_SPEED
         /\ ReachesTileEnd(ClockAdvance(vehicle, deltaTime), deltaTime, ints)
         /\ DeniedAhead(vehicle, ints))
          => \A w \in Outcomes(deltaTime) : w.isStopped /\ w.isAccelerating

\* C25's case: a reachable state in which two of the three flags are true.
C25_Witness ==
  \/ vehicle.isStopped /\ vehicle.isAccelerating
  \/ vehicle.isStopped /\ vehicle.isDecelerating
  \/ vehicle.isDecelerating /\ vehicle.isAccelerating

\* C26: in every reachable state of every intersection, the north and south
\* lights have the same state, the east and west lights have the same state,
\* the two lights of currentAxis have the state currentState (GREEN or
\* YELLOW), and the two lights of the other axis are RED.
C26_AxisLights ==
  \A c \in Registered :
    LET i == intersections[c]
    IN  /\ i.northLight = i.southLight
        /\ i.eastLight = i.westLight
        /\ i.currentState \in {GREEN, YELLOW}
        /\ i.currentAxis \in {"NS", "EW"}
        /\ i.currentAxis = "NS"
             => /\ i.northLight = i.currentState
                /\ i.southLight = i.currentState
                /\ i.eastLight = RED
                /\ i.westLight = RED
        /\ i.currentAxis = "EW"
             => /\ i.eastLight = i.currentState
                /\ i.westLight = i.currentState
                /\ i.northLight = RED
                /\ i.southLight = RED

\* C26's case: the north-south pair is in its YELLOW after a GREEN that ended
\* on time, both of its lights YELLOW and the east-west pair RED.
C26_Witness ==
  /\ elapsed = GREEN_DURATION
  /\ \A c \in Registered :
        /\ intersections[c].currentAxis = "NS"
        /\ intersections[c].northLight = YELLOW
        /\ intersections[c].southLight = YELLOW
        /\ intersections[c].eastLight = RED
        /\ intersections[c].westLight = RED

\* C27 as stated: a vehicle stays on the road.  If it is constructed on a
\* STRAIGHT or INTERSECTION tile, then after any sequence of update calls on
\* any map its grid cell is a tile inside the grid of type STRAIGHT or
\* INTERSECTION; it never occupies an EMPTY cell.
C27_StaysOnRoad ==
  LET t == getTileInfo(vehicle.currentTileX, vehicle.currentTileY)
  IN  t.exists /\ t.type \in {STRAIGHT, INTERSECTION}

\* C28 as stated: a vehicle never moves backwards within a tile.  Across any
\* update in which its grid cell and heading stay the same and no reset
\* occurs, tileProgress after the update is greater than or equal to
\* tileProgress before it, including at the ticks where it is stopped for a
\* red light.  Stated of every update the next frame can make.
C28_NoReset(deltaTime) ==
  \A m \in BeforeStuckCheck(ClockAdvance(vehicle, deltaTime), deltaTime,
                            LightsSeenByVehicles(intersections, deltaTime)) :
    ~StuckOnIntersection(m)

C28_NeverBackwards ==
  \A deltaTime \in DtSet :
    \A w \in Outcomes(deltaTime) :
      (/\ SameCell(vehicle, w)
       /\ w.currentDirection = vehicle.currentDirection
       /\ C28_NoReset(deltaTime))
        => w.tileProgress >= vehicle.tileProgress

\* C29 as stated: single simulation driver.  Across any interleaving of
\* page-visibility changes, requestAnimationFrame callbacks and interval
\* callbacks, at most one driver (one pending animate chain or the background
\* setInterval) calls updateGameLogic, so that the traffic lights and vehicles
\* are never advanced twice for the same elapsed interval: the time steps
\* handed to updateGameLogic never add up to more than the time gone by.
C29_Drivers ==
  (IF page.isPageVisible THEN page.pendingFrames ELSE 0)
    + (IF page.gameInterval THEN 1 ELSE 0)

C29_SingleDriver ==
  /\ C29_Drivers <= 1
  /\ page.simulated <= page.now

\* C30 as stated: braking is committed.  Once a vehicle is DECELERATING it
\* does not query the signal again: whatever the lights show, an update leaves
\* it on its tile with its heading, short of the tile boundary, never
\* accelerating and never faster than before, and either STOPPED with
\* currentSpeed 0 or still DECELERATING; under a tick with dt > 0 a vehicle
\* that is still DECELERATING has lost speed, so that it reaches STOPPED
\* before it can accelerate, even if the intersection ahead starts permitting
\* its heading before it has stopped.
C30_Decelerating(v) == v.isDecelerating /\ ~v.isStopped

\* The lights as they are and after one, two and three more changes of phase
\* (a step of GREEN_DURATION takes every intersection to its next phase).
C30_AnyLights ==
  LET once == TrafficLightSystemUpdate(intersections, GREEN_DURATION)
      twice == TrafficLightSystemUpdate(once, GREEN_DURATION)
      thrice == TrafficLightSystemUpdate(twice, GREEN_DURATION)
  IN  {intersections, once, twice, thrice}

C30_CommittedBraking ==
  (spawned /\ C30_Decelerating(vehicle)) =>
    \A deltaTime \in DtSet :
      /\ \A lights \in C30_AnyLights :
           update(ClockAdvance(vehicle, deltaTime), deltaTime, lights)
             = Outcomes(deltaTime)
      /\ \A w \in Outcomes(deltaTime) :
           /\ SameCell(vehicle, w)
           /\ w.currentDirection = vehicle.currentDirection
           /\ w.tileProgress <= VEHICLE_STOP_POINT
           /\ ~w.isAccelerating
           /\ w.currentSpeed <= vehicle.currentSpeed
           /\ w.isStopped => w.currentSpeed = 0
           /\ ~w.isStopped => w.isDecelerating
           /\ (deltaTime > 0 /\ ~w.isStopped)
                => w.currentSpeed < vehicle.currentSpeed

\* C30's case: a vehicle that is DECELERATING, whose intersection permits its
\* heading in the next frame, and which that frame leaves DECELERATING.
C30_Witness ==
  /\ spawned
  /\ C30_Decelerating(vehicle)
  /\ \E deltaTime \in DtSet \ {0} :
       /\ canCrossIntersection(LightsSeenByVehicles(intersections, deltaTime),
                               vehicle.nextIntersectionTileX,
                               vehicle.nextIntersectionTileY,
                               vehicle.currentDirection)
       /\ \E w \in Outcomes(deltaTime) : C30_Decelerating(w)
====
